---- MODULE Spec2Model ----
(***************************************************************************)
(* Model of the account identity codec and the transaction signing and     *)
(* validation layer of package database.                                   *)
(*                                                                         *)
(* Strings are sequences of byte codes ('0' = 48, 'x' = 120, ...), so the  *)
(* character range tests of the codec are the arithmetic the code does.    *)
(* A nil big.Int pointer is the empty sequence, a non-nil one is <<n>>.     *)
(***************************************************************************)
EXTENDS Integers, Sequences, FiniteSets, TLC

\* ------------------------------------------------------------------ bounds
NumKeys == 2        \* well-formed private keys 1..NumKeys
MaxChainID == 2     \* chain ids 1..MaxChainID
MaxTamper == 1      \* fields changed on a SignedTx after it was signed
CurveN == 7         \* toy order of the curve: valid scalars are 1..CurveN-1

\* --------------------------------------------------------------- constants
addressLength == 20
tahaID == 29

\* ------------------------------------------------------------- byte codes
Ch0 == 48
Ch9 == 57
ChA == 65
ChF == 70
ChX == 88
Cha == 97
Chf == 102
Chx == 120

\* ============================================================== accounts
\* has0xPrefix that accepts the lower-case x only.
has0xPrefixLowerOnly(a) ==
    Len(a) >= 2 /\ a[1] = Ch0 /\ a[2] = Chx

\* has0xPrefix validates the account starts with a 0x.
has0xPrefix(a) ==
    Len(a) >= 2 /\ a[1] = Ch0 /\ (a[2] = Chx \/ a[2] = ChX)

\* isHexCharacter returns bool of c being a valid hexadecimal.
isHexCharacter(c) ==
    (Ch0 <= c /\ c <= Ch9) \/ (Cha <= c /\ c <= Chf) \/ (ChA <= c /\ c <= ChF)

\* isHex validates whether each byte is valid hexadecimal string.
isHex(a) ==
    IF Len(a) % 2 # 0
      THEN FALSE
      ELSE \A i \in 1..Len(a) : isHexCharacter(a[i])

\* a[2:] of the code
DropPrefix(a) == SubSeq(a, 3, Len(a))

\* IsAccountID without the length test.
IsAccountIDNoLength(a) ==
    LET b == IF has0xPrefix(a) THEN DropPrefix(a) ELSE a
    IN  isHex(b)

\* IsAccountID verifies whether the underlying data represents a valid
\* hex-encoded account.
IsAccountID(a) ==
    LET b == IF has0xPrefix(a) THEN DropPrefix(a) ELSE a
    IN  Len(b) = 2 * addressLength /\ isHex(b)

NoError == [msg |-> "nil", args |-> <<>>]
Err(m) == [msg |-> m, args |-> <<>>]

\* ToAccountID converts a hex-encoded string to an account and validates
\* the hex-encoded string is formatted correctly.
ToAccountID(hex) ==
    IF ~IsAccountID(hex)
      THEN [id |-> <<>>, err |-> Err("invalid account format")]
      ELSE [id |-> hex, err |-> NoError]

\* ------------------------------------------------ rendering of 20 bytes
\* One hex digit of a nibble, in upper or lower case.
HexDigit(n, upper) ==
    IF n < 10 THEN Ch0 + n ELSE IF upper THEN ChA + (n - 10) ELSE Cha + (n - 10)

Nibble(bytes, j) ==
    IF j % 2 = 1 THEN bytes[(j + 1) \div 2] \div 16 ELSE bytes[j \div 2] % 16

Casings == {"lower", "upper", "mixed"}

UpperAt(casing, j) ==
    CASE casing = "lower" -> FALSE
      [] casing = "upper" -> TRUE
      [] OTHER            -> j % 2 = 1

\* The 0x- or 0X-prefixed 40 digit rendering of a 20 byte value.
Render(bytes, bigX, casing) ==
    <<Ch0, IF bigX THEN ChX ELSE Chx>> \o
    [j \in 1..(2 * addressLength) |-> HexDigit(Nibble(bytes, j), UpperAt(casing, j))]

\* strings.ToLower
ToLower(a) ==
    [i \in 1..Len(a) |-> IF 65 <= a[i] /\ a[i] <= 90 THEN a[i] + 32 ELSE a[i]]

\* The 20 bytes an account id denotes: prefix removed, digit case ignored.
Denotes(a) == ToLower(IF has0xPrefix(a) THEN DropPrefix(a) ELSE a)

\* The address bytes of the public key of private key k (stands for the
\* Keccak hash of the key, of which the last 20 bytes are kept).
AddrBytes(k) == [i \in 1..addressLength |-> (k * 37 + i * 11) % 256]

\* PublicKeyToAccountID converts the public key to an account value: the
\* 0x-prefixed checksummed (mixed-case) rendering of the address.
PublicKeyToAccountID(k) == Render(AddrBytes(k), FALSE, "mixed")

\* ======================================================= package signature
\* The canonical digest of a transaction: an injective, order-sensitive
\* encoding of all its fields.
Digest(tx) ==
    <<tx.ChainID, tx.Nonce, tx.FromID, tx.ToID, tx.Value, tx.Tip, tx.Data>>

Nil == <<>>
Keys == 1..NumKeys
MalformedKey == 0
\* The key nobody holds: what recovery yields for a signature that was not
\* made over the digest it is checked against.
UnknownKey == NumKeys + 1

\* The recovery id and the nonce coordinate of a signature made with key k.
SigV(k) == tahaID + (k % 2)
SigR(k) == 1 + 2 * (k % (CurveN \div 2))
\* Whether r is the x coordinate of a point of the curve.
OnCurve(r) == r % 2 = 1

\* signature.Sign: the signature of key k over the digest of tx. The scalar
\* s is kept as what it binds, <<k, digest>>.
SignatureSign(tx, k) ==
    IF k \notin Keys
      THEN [v |-> Nil, r |-> Nil, s |-> Nil, err |-> Err("signing failure")]
      ELSE [v |-> <<SigV(k)>>, r |-> <<SigR(k)>>, s |-> <<k, Digest(tx)>>,
            err |-> NoError]

InRange(x) ==
    \/ Len(x) = 2
    \/ Len(x) = 1 /\ x[1] >= 1 /\ x[1] < CurveN

\* signature.VerifySignature: V, R, S are non-nil, V is one of the two
\* accepted recovery values, R and S are in the scalar range of the curve.
VerifySignature(v, r, s) ==
    IF v = Nil \/ r = Nil \/ s = Nil THEN Err("malformed signature")
    ELSE IF v[1] - tahaID # 0 /\ v[1] - tahaID # 1 THEN Err("malformed signature")
    ELSE IF ~InRange(r) \/ ~InRange(s) THEN Err("malformed signature")
    ELSE NoError

\* signature.FromAddress: the identity implied by (digest of tx, v, r, s).
FromAddress(tx, v, r, s) ==
    IF ~OnCurve(r[1])
      THEN [address |-> <<>>, err |-> Err("signature recovery failed")]
    ELSE IF Len(s) = 2 /\ s[2] = Digest(tx) /\ v[1] = SigV(s[1]) /\ r[1] = SigR(s[1])
      THEN [address |-> PublicKeyToAccountID(s[1]), err |-> NoError]
    ELSE [address |-> PublicKeyToAccountID(UnknownKey), err |-> NoError]

\* ========================================================== transactions
ZeroTx ==
    [ChainID |-> 0, Nonce |-> 0, FromID |-> <<>>, ToID |-> <<>>,
     Value |-> 0, Tip |-> 0, Data |-> <<>>]

ZeroSignedTx == [Tx |-> ZeroTx, V |-> Nil, R |-> Nil, S |-> Nil]

\* NewTx that tests the recipient before the sender.
NewTxToFirst(chainID, nonce, fromID, toID, value, tip, data) ==
    IF ~IsAccountID(toID)
      THEN [tx |-> ZeroTx, err |-> Err("to account is not properly formatted")]
    ELSE IF ~IsAccountID(fromID)
      THEN [tx |-> ZeroTx, err |-> Err("from account is not properly formatted")]
    ELSE [tx |-> [ChainID |-> chainID, Nonce |-> nonce, FromID |-> fromID,
                  ToID |-> toID, Value |-> value, Tip |-> tip, Data |-> data],
          err |-> NoError]

\* NewTx constructs a new transaction.
NewTx(chainID, nonce, fromID, toID, value, tip, data) ==
    IF ~IsAccountID(fromID)
      THEN [tx |-> ZeroTx, err |-> Err("from account is not properly formatted")]
    ELSE IF ~IsAccountID(toID)
      THEN [tx |-> ZeroTx, err |-> Err("to account is not properly formatted")]
    ELSE [tx |-> [ChainID |-> chainID, Nonce |-> nonce, FromID |-> fromID,
                  ToID |-> toID, Value |-> value, Tip |-> tip, Data |-> data],
          err |-> NoError]

\* Sign that stores the signature with R and S exchanged.
SignSwapsRS(tx, privateKey) ==
    LET sig == SignatureSign(tx, privateKey)
    IN  IF sig.err # NoError
          THEN [signedTx |-> ZeroSignedTx, err |-> sig.err]
          ELSE [signedTx |-> [Tx |-> tx, V |-> sig.v, R |-> sig.s, S |-> sig.r],
                err |-> NoError]

\* Sign uses the specified private key to sign the transaction.
Sign(tx, privateKey) ==
    LET sig == SignatureSign(tx, privateKey)
    IN  IF sig.err # NoError
          THEN [signedTx |-> ZeroSignedTx, err |-> sig.err]
          ELSE [signedTx |-> [Tx |-> tx, V |-> sig.v, R |-> sig.r, S |-> sig.s],
                err |-> NoError]

\* The checks of Validate, in the order of the code.
Checks ==
    <<"chain", "from", "to", "self", "verify", "recover", "match">>

\* Validate without the chain id test.
ValidateNoChain(tx, chainID) ==
    IF ~IsAccountID(tx.Tx.FromID)
      THEN [err |-> Err("from account is not properly formatted"),
            ran |-> <<"from">>]
    ELSE IF ~IsAccountID(tx.Tx.ToID)
      THEN [err |-> Err("to account is not properly formatted"),
            ran |-> <<"from", "to">>]
    ELSE IF tx.Tx.FromID = tx.Tx.ToID
      THEN [err |-> [msg |-> "transaction invalid, sending money to yourself",
                     args |-> <<tx.Tx.FromID, tx.Tx.ToID>>],
            ran |-> <<"from", "to", "self">>]
    ELSE IF VerifySignature(tx.V, tx.R, tx.S) # NoError
      THEN [err |-> VerifySignature(tx.V, tx.R, tx.S), ran |-> <<"from", "to", "self", "verify">>]
    ELSE IF FromAddress(tx.Tx, tx.V, tx.R, tx.S).err # NoError
      THEN [err |-> FromAddress(tx.Tx, tx.V, tx.R, tx.S).err,
            ran |-> <<"from", "to", "self", "verify", "recover">>]
    ELSE IF FromAddress(tx.Tx, tx.V, tx.R, tx.S).address # tx.Tx.FromID
      THEN [err |-> Err("signature address doesn't match from address"),
            ran |-> <<"from", "to", "self", "verify", "recover", "match">>]
    ELSE [err |-> NoError, ran |-> <<"from", "to", "self", "verify", "recover", "match">>]

\* Validate without the self-transfer test.
ValidateNoSelf(tx, chainID) ==
    IF tx.Tx.ChainID # chainID
      THEN [err |-> [msg |-> "invalid chain id", args |-> <<tx.Tx.ChainID, chainID>>],
            ran |-> <<"chain">>]
    ELSE IF ~IsAccountID(tx.Tx.FromID)
      THEN [err |-> Err("from account is not properly formatted"),
            ran |-> <<"chain", "from">>]
    ELSE IF ~IsAccountID(tx.Tx.ToID)
      THEN [err |-> Err("to account is not properly formatted"),
            ran |-> <<"chain", "from", "to">>]
    ELSE IF VerifySignature(tx.V, tx.R, tx.S) # NoError
      THEN [err |-> VerifySignature(tx.V, tx.R, tx.S), ran |-> <<"chain", "from", "to", "verify">>]
    ELSE IF FromAddress(tx.Tx, tx.V, tx.R, tx.S).err # NoError
      THEN [err |-> FromAddress(tx.Tx, tx.V, tx.R, tx.S).err,
            ran |-> <<"chain", "from", "to", "verify", "recover">>]
    ELSE IF FromAddress(tx.Tx, tx.V, tx.R, tx.S).address # tx.Tx.FromID
      THEN [err |-> Err("signature address doesn't match from address"),
            ran |-> <<"chain", "from", "to", "verify", "recover", "match">>]
    ELSE [err |-> NoError, ran |-> <<"chain", "from", "to", "verify", "recover", "match">>]

\* Validate that accepts whatever identity the signature recovers.
ValidateNoMatch(tx, chainID) ==
    IF tx.Tx.ChainID # chainID
      THEN [err |-> [msg |-> "invalid chain id", args |-> <<tx.Tx.ChainID, chainID>>],
            ran |-> SubSeq(Checks, 1, 1)]
    ELSE IF ~IsAccountID(tx.Tx.FromID)
      THEN [err |-> Err("from account is not properly formatted"),
            ran |-> SubSeq(Checks, 1, 2)]
    ELSE IF ~IsAccountID(tx.Tx.ToID)
      THEN [err |-> Err("to account is not properly formatted"),
            ran |-> SubSeq(Checks, 1, 3)]
    ELSE IF tx.Tx.FromID = tx.Tx.ToID
      THEN [err |-> [msg |-> "transaction invalid, sending money to yourself",
                     args |-> <<tx.Tx.FromID, tx.Tx.ToID>>],
            ran |-> SubSeq(Checks, 1, 4)]
    ELSE IF VerifySignature(tx.V, tx.R, tx.S) # NoError
      THEN [err |-> VerifySignature(tx.V, tx.R, tx.S), ran |-> SubSeq(Checks, 1, 5)]
    ELSE IF FromAddress(tx.Tx, tx.V, tx.R, tx.S).err # NoError
      THEN [err |-> FromAddress(tx.Tx, tx.V, tx.R, tx.S).err,
            ran |-> SubSeq(Checks, 1, 6)]
    ELSE [err |-> NoError, ran |-> Checks]

\* Validate that tests the signature before the account formats.
ValidateSigFirst(tx, chainID) ==
    IF tx.Tx.ChainID # chainID
      THEN [err |-> [msg |-> "invalid chain id", args |-> <<tx.Tx.ChainID, chainID>>],
            ran |-> SubSeq(Checks, 1, 1)]
    ELSE IF VerifySignature(tx.V, tx.R, tx.S) # NoError
      THEN [err |-> VerifySignature(tx.V, tx.R, tx.S), ran |-> <<"chain", "verify">>]
    ELSE IF ~IsAccountID(tx.Tx.FromID)
      THEN [err |-> Err("from account is not properly formatted"),
            ran |-> <<"chain", "verify", "from">>]
    ELSE IF ~IsAccountID(tx.Tx.ToID)
      THEN [err |-> Err("to account is not properly formatted"),
            ran |-> <<"chain", "verify", "from", "to">>]
    ELSE IF tx.Tx.FromID = tx.Tx.ToID
      THEN [err |-> [msg |-> "transaction invalid, sending money to yourself",
                     args |-> <<tx.Tx.FromID, tx.Tx.ToID>>],
            ran |-> <<"chain", "verify", "from", "to", "self">>]
    ELSE IF FromAddress(tx.Tx, tx.V, tx.R, tx.S).err # NoError
      THEN [err |-> FromAddress(tx.Tx, tx.V, tx.R, tx.S).err,
            ran |-> <<"chain", "verify", "from", "to", "self", "recover">>]
    ELSE IF FromAddress(tx.Tx, tx.V, tx.R, tx.S).address # tx.Tx.FromID
      THEN [err |-> Err("signature address doesn't match from address"),
            ran |-> <<"chain", "verify", "from", "to", "self", "recover", "match">>]
    ELSE [err |-> NoError, ran |-> <<"chain", "verify", "from", "to", "self", "recover", "match">>]

\* Validate verifies the transaction has a proper signature that conforms to
\* our standards. It also checks the from field matches the account that
\* signed the transaction. err is the error returned, ran the checks that
\* were evaluated.
Validate(tx, chainID) ==
    IF tx.Tx.ChainID # chainID
      THEN [err |-> [msg |-> "invalid chain id", args |-> <<tx.Tx.ChainID, chainID>>],
            ran |-> SubSeq(Checks, 1, 1)]
    ELSE IF ~IsAccountID(tx.Tx.FromID)
      THEN [err |-> Err("from account is not properly formatted"),
            ran |-> SubSeq(Checks, 1, 2)]
    ELSE IF ~IsAccountID(tx.Tx.ToID)
      THEN [err |-> Err("to account is not properly formatted"),
            ran |-> SubSeq(Checks, 1, 3)]
    ELSE IF tx.Tx.FromID = tx.Tx.ToID
      THEN [err |-> [msg |-> "transaction invalid, sending money to yourself",
                     args |-> <<tx.Tx.FromID, tx.Tx.ToID>>],
            ran |-> SubSeq(Checks, 1, 4)]
    ELSE IF VerifySignature(tx.V, tx.R, tx.S) # NoError
      THEN [err |-> VerifySignature(tx.V, tx.R, tx.S), ran |-> SubSeq(Checks, 1, 5)]
    ELSE IF FromAddress(tx.Tx, tx.V, tx.R, tx.S).err # NoError
      THEN [err |-> FromAddress(tx.Tx, tx.V, tx.R, tx.S).err,
            ran |-> SubSeq(Checks, 1, 6)]
    ELSE IF FromAddress(tx.Tx, tx.V, tx.R, tx.S).address # tx.Tx.FromID
      THEN [err |-> Err("signature address doesn't match from address"),
            ran |-> Checks]
    ELSE [err |-> NoError, ran |-> Checks]

\* ============================================================== the inputs
ChainIDs == 1..MaxChainID
Nonces == {0}
Values == {100, 200}
Tips == {1}
Datas == {<<>>}

\* "0x1234": too short.
ShortID == <<Ch0, Chx, 49, 50, 51, 52>>

\* The account ids callers supply: for every key its derived (mixed-case)
\* id, the lower-case form of the first key's address, and a malformed one.
IDs ==
    {PublicKeyToAccountID(k) : k \in Keys}
      \cup {ToLower(PublicKeyToAccountID(1)), ShortID}

\* What the signature fields are overwritten with: nil, the accepted and an
\* unaccepted recovery value, scalars inside and outside the valid range.
VValues == {Nil, <<tahaID>>, <<tahaID + 1>>, <<tahaID + 2>>}
RValues == {Nil, <<2>>, <<3>>, <<CurveN>>}
SValues == {Nil, <<1>>, <<CurveN>>}

\* The 20 byte values whose renderings ToAccountID is given.
ByteSamples == {0, 9, 154, 175, 255}
ByteSeqs ==
    {[i \in 1..addressLength |-> IF i = p THEN x ELSE y] :
        p \in {1, addressLength}, x \in ByteSamples, y \in ByteSamples}
Renderings ==
    {Render(b, bigX, casing) : b \in ByteSeqs, bigX \in BOOLEAN, casing \in Casings}

\* Characters next to the three digit ranges, the prefix letters, a space.
OddChars == {32, 47, 58, 64, 71, 96, 103, ChX, Chx}
Replace(a, pos, c) == [a EXCEPT ![pos] = c]
\* The length of a prefixed account id.
FullLen == 2 + 2 * addressLength
Seeds == {PublicKeyToAccountID(k) : k \in Keys}

\* The strings ToAccountID is given: renderings, with and without prefix,
\* and strings one edit away from a rendering.
HexInputs ==
    Renderings
      \cup {DropPrefix(a) : a \in Seeds}
      \cup {DropPrefix(a) \o <<Ch0, Ch0>> : a \in Seeds}
      \cup {<<Ch0>> \o DropPrefix(a) : a \in Seeds}
      \cup {Replace(a, pos, c) : a \in Seeds, pos \in {1, 2, 3, FullLen}, c \in OddChars}
      \cup {SubSeq(a, 1, n) : a \in Seeds, n \in {0, 1, 2, 6, FullLen - 2, FullLen - 1}}
      \cup {a \o <<Ch0>> : a \in Seeds}
      \cup {a \o <<Ch0, Ch0>> : a \in Seeds}

\* ================================================================ the state
VARIABLES
    pc,        \* "start", "built", "signfailed", "signed", "validated"
    tx,        \* the Tx NewTx returned
    txErr,     \* the error NewTx returned
    stx,       \* the SignedTx Sign returned, as its holder changed it since
    signErr,   \* the error Sign returned
    tampers,   \* number of field assignments to stx since it was signed
    chainArg,  \* the chainID argument of the last Validate
    verr,      \* the error the last Validate returned
    ran,       \* the checks the last Validate evaluated
    base,      \* <<SignedTx, chainID>> of the last successful Validate
    args,      \* the arguments NewTx was called with
    signer,    \* the private key Sign was called with
    idDone,    \* whether ToAccountID was called
    hexIn,     \* the argument of the last ToAccountID
    idOut,     \* the AccountID the last ToAccountID returned
    idErr      \* the error the last ToAccountID returned

txVars == <<pc, tx, txErr, stx, signErr, tampers, chainArg, verr, ran, base,
           args, signer>>
idVars == <<idDone, hexIn, idOut, idErr>>
vars == <<pc, tx, txErr, stx, signErr, tampers, chainArg, verr, ran, base,
          args, signer, idDone, hexIn, idOut, idErr>>

Init ==
    /\ pc = "start"
    /\ tx = ZeroTx
    /\ txErr = NoError
    /\ stx = ZeroSignedTx
    /\ signErr = NoError
    /\ tampers = 0
    /\ chainArg = 0
    /\ verr = NoError
    /\ ran = <<>>
    /\ base = <<>>
    /\ args = <<>>
    /\ signer = MalformedKey
    /\ idDone = FALSE
    /\ hexIn = <<>>
    /\ idOut = <<>>
    /\ idErr = NoError

\* ----------------------------------------------------------- transactions
NewTxCall(chainID, nonce, fromID, toID, value, tip, data) ==
    /\ pc = "start"
    /\ tx' = NewTx(chainID, nonce, fromID, toID, value, tip, data).tx
    /\ txErr' = NewTx(chainID, nonce, fromID, toID, value, tip, data).err
    /\ pc' = "built"
    /\ stx' = ZeroSignedTx
    /\ signErr' = NoError
    /\ tampers' = 0
    /\ chainArg' = 0
    /\ verr' = NoError
    /\ ran' = <<>>
    /\ base' = <<>>
    /\ args' = <<chainID, nonce, fromID, toID, value, tip, data>>
    /\ UNCHANGED signer
    /\ UNCHANGED idVars

SignCall(privateKey) ==
    /\ pc = "built"
    /\ txErr = NoError
    /\ stx' = Sign(tx, privateKey).signedTx
    /\ signErr' = Sign(tx, privateKey).err
    /\ pc' = IF Sign(tx, privateKey).err = NoError THEN "signed" ELSE "signfailed"
    /\ signer' = privateKey
    /\ UNCHANGED <<tx, txErr, tampers, chainArg, verr, ran, base, args>>
    /\ UNCHANGED idVars

\* The fields of a SignedTx are exported: whoever holds or transmits it can
\* assign any of them after it was signed.
Assign(newStx) ==
    /\ pc \in {"signed", "validated"}
    /\ tampers < MaxTamper
    /\ newStx # stx
    /\ stx' = newStx
    /\ tampers' = tampers + 1
    /\ pc' = "signed"
    /\ chainArg' = 0
    /\ verr' = NoError
    /\ ran' = <<>>
    /\ UNCHANGED <<tx, txErr, signErr, base, args, signer>>
    /\ UNCHANGED idVars

SetChainID(c) == Assign([stx EXCEPT !.Tx.ChainID = c])
SetFromID(id) == Assign([stx EXCEPT !.Tx.FromID = id])
SetToID(id) == Assign([stx EXCEPT !.Tx.ToID = id])
SetValue(v) == Assign([stx EXCEPT !.Tx.Value = v])
SetV(x) == Assign([stx EXCEPT !.V = x])
SetR(x) == Assign([stx EXCEPT !.R = x])
SetS(x) == Assign([stx EXCEPT !.S = x])

ValidateCall(chainID) ==
    /\ pc \in {"signed", "validated"}
    /\ chainArg' = chainID
    /\ verr' = Validate(stx, chainID).err
    /\ ran' = Validate(stx, chainID).ran
    /\ base' = IF Validate(stx, chainID).err = NoError THEN <<stx, chainID>> ELSE base
    /\ pc' = "validated"
    /\ UNCHANGED <<tx, txErr, stx, signErr, tampers, args, signer>>
    /\ UNCHANGED idVars

\* ------------------------------------------------------------ identities
ToAccountIDCall(hex) ==
    /\ hexIn' = hex
    /\ idOut' = ToAccountID(hex).id
    /\ idErr' = ToAccountID(hex).err
    /\ idDone' = TRUE
    /\ UNCHANGED txVars

NextID == \E hex \in HexInputs : ToAccountIDCall(hex)

SpecID == Init /\ [][NextID]_vars

Next ==
    \/ \E c \in ChainIDs, n \in Nonces, f \in IDs, t \in IDs,
          v \in Values, p \in Tips, d \in Datas : NewTxCall(c, n, f, t, v, p, d)
    \/ \E k \in Keys \cup {MalformedKey} : SignCall(k)
    \/ \E c \in ChainIDs : SetChainID(c)
    \/ \E id \in IDs : SetFromID(id)
    \/ \E id \in IDs : SetToID(id)
    \/ \E v \in Values : SetValue(v)
    \/ \E x \in VValues : SetV(x)
    \/ \E x \in RValues : SetR(x)
    \/ \E x \in SValues : SetS(x)
    \/ \E c \in ChainIDs : ValidateCall(c)

Spec == Init /\ [][Next]_vars

\* ============================================================== properties
MsgFormat == "invalid account format"
MsgFrom == "from account is not properly formatted"
MsgTo == "to account is not properly formatted"
MsgChain == "invalid chain id"
MsgSelf == "transaction invalid, sending money to yourself"
MsgMismatch == "signature address doesn't match from address"

HexCodes == (48..57) \cup (65..70) \cup (97..102)
AllHex(a, from, to) == \A i \in from..to : a[i] \in HexCodes

\* Exactly "0x" followed by 40 hex digits.
Strict0x(a) ==
    Len(a) = 42 /\ a[1] = 48 /\ a[2] = 120 /\ AllHex(a, 3, 42)

\* 40 hex digits, bare or preceded by "0x" or "0X".
WellFormed(a) ==
    \/ Len(a) = 40 /\ AllHex(a, 1, 40)
    \/ Len(a) = 42 /\ a[1] = 48 /\ a[2] \in {120, 88} /\ AllHex(a, 3, 42)

\* C1: a transaction built by NewTx and signed with the key whose derived
\* account id is textually its FromID, with FromID # ToID, is signed without
\* error and validates against its own chain id.
C1_SignThenValidate ==
    (txErr = NoError /\ PublicKeyToAccountID(signer) = tx.FromID /\ tx.FromID # tx.ToID)
      => /\ pc \in {"signed", "signfailed", "validated"} => signErr = NoError
         /\ (pc = "validated" /\ tampers = 0 /\ chainArg = tx.ChainID) => verr = NoError

C1_Witness ==
    /\ pc = "validated" /\ tampers = 0 /\ chainArg = tx.ChainID
    /\ txErr = NoError /\ PublicKeyToAccountID(signer) = tx.FromID /\ tx.FromID # tx.ToID
    /\ stx.Tx = tx /\ signErr = NoError /\ verr = NoError

\* C2: a SignedTx signed under key A whose well-formed FromID is not the id
\* derived from A (chain id matching, ToID well-formed and different) fails
\* with the signature-mismatch error, and Validate never succeeds when the
\* recovered identity differs from FromID.
C2_WrongSigner ==
    /\ (/\ pc = "validated" /\ tampers = 0 /\ chainArg = stx.Tx.ChainID
        /\ stx.Tx.FromID # stx.Tx.ToID
        /\ stx.Tx.FromID # PublicKeyToAccountID(signer))
         => verr.msg = MsgMismatch
    /\ (pc = "validated" /\ verr = NoError)
         => FromAddress(stx.Tx, stx.V, stx.R, stx.S).address = stx.Tx.FromID

C2_Witness ==
    /\ pc = "validated" /\ tampers = 0 /\ chainArg = stx.Tx.ChainID
    /\ stx.Tx.FromID # stx.Tx.ToID
    /\ WellFormed(stx.Tx.FromID) /\ WellFormed(stx.Tx.ToID)
    /\ signer \in Keys /\ stx.Tx.FromID # PublicKeyToAccountID(signer)
    /\ verr.msg = MsgMismatch

\* C3: Validate against a chain id other than the transaction's returns the
\* chain-mismatch error whatever the other fields are, also for a SignedTx
\* that validated against its own chain id.
C3_ChainMismatch ==
    (pc = "validated" /\ chainArg # stx.Tx.ChainID)
      => /\ verr.msg = MsgChain
         /\ verr.args = <<stx.Tx.ChainID, chainArg>>

C3_Witness ==
    /\ pc = "validated" /\ base # <<>> /\ base[1] = stx /\ base[2] = 1
    /\ chainArg = 2 /\ verr.msg = MsgChain

\* C4: a SignedTx whose FromID equals its ToID never validates: NewTx
\* accepts it, Validate rejects it with the self-transfer error or with the
\* error of an earlier check.
C4_SelfTransfer ==
    (pc = "validated" /\ stx.Tx.FromID = stx.Tx.ToID)
      => /\ verr.msg \in {MsgChain, MsgFrom, MsgSelf}
         /\ (chainArg = stx.Tx.ChainID /\ WellFormed(stx.Tx.FromID)) => verr.msg = MsgSelf

C4_Witness ==
    /\ pc = "validated" /\ tampers = 0 /\ txErr = NoError /\ stx.Tx = tx
    /\ tx.FromID = tx.ToID /\ chainArg = tx.ChainID /\ verr.msg = MsgSelf

\* C5 as stated: every string that is not exactly 0x followed by 40 hex
\* digits is rejected with the format error and the empty AccountID.
C5_Original ==
    (idDone /\ ~Strict0x(hexIn)) => (idErr.msg = MsgFormat /\ idOut = <<>>)

\* C5 amended: every string that is not 40 hex digits, bare or preceded by
\* 0x or 0X, is rejected with the format error and the empty AccountID;
\* every AccountID returned without error is such a string.
C5_Amended ==
    /\ (idDone /\ ~WellFormed(hexIn)) => (idErr.msg = MsgFormat /\ idOut = <<>>)
    /\ (idDone /\ idErr = NoError) => WellFormed(idOut)

C5_Witness ==
    /\ idDone /\ Len(hexIn) = 6 /\ ~WellFormed(hexIn)
    /\ idErr.msg = MsgFormat /\ idOut = <<>>

\* C6: the 0x- or 0X-prefixed rendering of a 20 byte value, in lower, upper
\* or mixed case, is accepted by ToAccountID and returned unchanged, and the
\* result satisfies IsAccountID.
C6_RoundTrip ==
    (idDone /\ hexIn \in Renderings)
      => (idErr = NoError /\ idOut = hexIn /\ IsAccountID(idOut))

C6_Witness ==
    /\ idDone /\ hexIn \in Renderings /\ hexIn[2] = 88
    /\ \E i \in 3..42 : hexIn[i] \in 65..70
    /\ \E i \in 3..42 : hexIn[i] \in 97..102
    /\ idErr = NoError /\ idOut = hexIn

\* C7: NewTx fails with the sender error when fromID is malformed (also
\* when toID is malformed too), with the recipient error when only toID is
\* malformed, returning the zero Tx; otherwise it returns the Tx of exactly
\* the supplied fields, also when fromID = toID.
C7_NewTx ==
    pc # "start" =>
      /\ ~WellFormed(args[3]) => (txErr.msg = MsgFrom /\ tx = ZeroTx)
      /\ (WellFormed(args[3]) /\ ~WellFormed(args[4]))
           => (txErr.msg = MsgTo /\ tx = ZeroTx)
      /\ (WellFormed(args[3]) /\ WellFormed(args[4]))
           => /\ txErr = NoError
              /\ <<tx.ChainID, tx.Nonce, tx.FromID, tx.ToID, tx.Value, tx.Tip, tx.Data>> = args

C7_Witness ==
    /\ pc = "built" /\ ~WellFormed(args[3]) /\ ~WellFormed(args[4])
    /\ txErr.msg = MsgFrom /\ tx = ZeroTx

\* Whether check i of Validate is violated by the SignedTx t against chain c.
Violated(i, t, c) ==
    CASE i = 1 -> t.Tx.ChainID # c
      [] i = 2 -> ~WellFormed(t.Tx.FromID)
      [] i = 3 -> ~WellFormed(t.Tx.ToID)
      [] i = 4 -> t.Tx.FromID = t.Tx.ToID
      [] i = 5 -> VerifySignature(t.V, t.R, t.S) # NoError
      [] i = 6 -> t.R # Nil /\ ~OnCurve(t.R[1])
      [] OTHER -> /\ VerifySignature(t.V, t.R, t.S) = NoError
                  /\ OnCurve(t.R[1])
                  /\ FromAddress(t.Tx, t.V, t.R, t.S).address # t.Tx.FromID

CheckMsgs(t) ==
    <<{MsgChain}, {MsgFrom}, {MsgTo}, {MsgSelf},
      {VerifySignature(t.V, t.R, t.S).msg}, {"signature recovery failed"},
      {MsgMismatch}>>

C9_TamperedValue ==
    [][(/\ pc = "signed" /\ pc' = "validated"
        /\ base # <<>> /\ chainArg' = base[2]
        /\ stx.Tx.Value # base[1].Tx.Value
        /\ stx = [base[1] EXCEPT !.Tx.Value = stx.Tx.Value])
         => verr'.msg = MsgMismatch]_vars

C9_Witness ==
    /\ pc = "validated" /\ base # <<>> /\ chainArg = base[2]
    /\ stx.Tx.Value # base[1].Tx.Value
    /\ stx = [base[1] EXCEPT !.Tx.Value = stx.Tx.Value]
    /\ verr.msg = MsgMismatch

\* C10: Validate never succeeds for a SignedTx whose FromID and ToID denote
\* the same 20 byte account, i.e. are equal once the optional prefix is
\* removed and the case of the digits ignored.
C10_SameAccount ==
    (pc = "validated" /\ Denotes(stx.Tx.FromID) = Denotes(stx.Tx.ToID))
      => verr # NoError

====
